---- MODULE Spec2Model ----
(***************************************************************************)
(* Model of the contact book of src/contact_manager.py: the in-memory list *)
(* self.contacts, the derived list self.filtered_contacts, the selection,  *)
(* the search box and the JSON file contacts.json, with one action per     *)
(* event handler of ContactManager.                                        *)
(*                                                                         *)
(* A Python str is a sequence of one-character strings, so that strip(),   *)
(* lower(), the `in` substring test and the two regular expressions are    *)
(* computed as the code computes them.  A JSON document is a tagged value. *)
(* Python's None is the number -1; list indices are 0-based as in the code.*)
(* The characters are those of Latin-1 (code points 0 to 255) and the      *)
(* Greek ones from U+0380 to U+03FC other than capital sigma (U+03A3):     *)
(* whitespace and letter case are tabulated for every one of them.         *)
(*                                                                         *)
(* A contact is the dict json.load or a handler built: each of its four    *)
(* keys holds a JSON value (a string, a number, or no value when the key   *)
(* is missing).  The handlers write strings only; other values come from   *)
(* a contacts.json that the program did not write.  The code finds the     *)
(* selected record with list.index, that is by equality of the dicts, and  *)
(* so does the model.                                                      *)
(*                                                                         *)
(* The text of the form is the input of Add New and Update Selected (the   *)
(* draft d).  clear_form and on_tree_double_click read or write only the   *)
(* form, so they are no actions here.  An exception that escapes a handler *)
(* is recorded as a title in `dialogs` ("AttributeError", "KeyError", ...).*)
(***************************************************************************)
EXTENDS Integers, Sequences, FiniteSets, TLC

VARIABLES
    contacts,           \* self.contacts: list of dicts name/phone/email/address
    filtered_contacts,  \* self.filtered_contacts
    selected_index,     \* self.selected_index: None or an index within filtered_contacts
    var_search,         \* self.var_search: text of the search box
    file,               \* the document stored at DATA_FILE
    op,                 \* the handler that ran last
    dialogs,            \* titles of the message boxes the last handler showed, in order
    saved,              \* outcome of the _save_contacts call of the last handler
    reported,           \* the count in the "Imported N contacts." message, else None
    failed_saves        \* how many writes of contacts.json have failed so far

vars == <<contacts, filtered_contacts, selected_index, var_search, file,
          op, dialogs, saved, reported, failed_saves>>

None == -1

\* Bounds of the model: the longest list self.contacts may grow to, in the
\* sessions where every write succeeds and in those where a write may fail, and
\* how many writes of contacts.json may fail in one session.
MaxContacts == 3

MaxContactsFS == 2

MaxFailedSaves == 1

----------------------------------------------------------------------------
(* Strings *)

\* the characters str.strip() removes and the class \s of re matches: tab, line
\* feed, vertical tab, form feed, carriage return, the separators 0x1C to 0x1F,
\* space, next line (0x85) and no-break space (0xA0)
Whitespace == {"\t", "\n", "", "\f", "\r", "", "", "", "", " ",
               "", " "}

\* the characters str.lower() changes, and what it makes of each: every such
\* character of Latin-1 (56) and of the Greek letters U+0380 to U+03FC (49: the
\* plain, the accented and the archaic capitals), capital sigma left out, whose
\* lower case depends on its place in the word
UpperCase == <<"A", "B", "C", "D", "E", "F", "G", "H", "I", "J", "K", "L", "M",
               "N", "O", "P", "Q", "R", "S", "T", "U", "V", "W", "X", "Y", "Z",
               "À", "Á", "Â", "Ã", "Ä", "Å", "Æ", "Ç", "È", "É", "Ê", "Ë", "Ì",
               "Í", "Î", "Ï", "Ð", "Ñ", "Ò", "Ó", "Ô", "Õ", "Ö", "Ø", "Ù", "Ú",
               "Û", "Ü", "Ý", "Þ",
               "Ά", "Έ", "Ή", "Ί", "Ό", "Ύ", "Ώ", "Α", "Β", "Γ", "Δ", "Ε",
               "Ζ", "Η", "Θ", "Ι", "Κ", "Λ", "Μ", "Ν", "Ξ", "Ο", "Π", "Ρ",
               "Τ", "Υ", "Φ", "Χ", "Ψ", "Ω", "Ϊ", "Ϋ", "Ϗ", "Ϙ", "Ϛ", "Ϝ",
               "Ϟ", "Ϡ", "Ϣ", "Ϥ", "Ϧ", "Ϩ", "Ϫ", "Ϭ", "Ϯ", "ϴ", "Ϸ", "Ϲ",
               "Ϻ">>

LowerCase == <<"a", "b", "c", "d", "e", "f", "g", "h", "i", "j", "k", "l", "m",
               "n", "o", "p", "q", "r", "s", "t", "u", "v", "w", "x", "y", "z",
               "à", "á", "â", "ã", "ä", "å", "æ", "ç", "è", "é", "ê", "ë", "ì",
               "í", "î", "ï", "ð", "ñ", "ò", "ó", "ô", "õ", "ö", "ø", "ù", "ú",
               "û", "ü", "ý", "þ",
               "ά", "έ", "ή", "ί", "ό", "ύ", "ώ", "α", "β", "γ", "δ", "ε",
               "ζ", "η", "θ", "ι", "κ", "λ", "μ", "ν", "ξ", "ο", "π", "ρ",
               "τ", "υ", "φ", "χ", "ψ", "ω", "ϊ", "ϋ", "ϗ", "ϙ", "ϛ", "ϝ",
               "ϟ", "ϡ", "ϣ", "ϥ", "ϧ", "ϩ", "ϫ", "ϭ", "ϯ", "θ", "ϸ", "ϲ",
               "ϻ">>

Digits == <<"0", "1", "2", "3", "4", "5", "6", "7", "8", "9">>

SetMin(S) == CHOOSE x \in S : \A y \in S : x <= y

SetMax(S) == CHOOSE x \in S : \A y \in S : x >= y

\* str.strip(): drop leading and trailing whitespace
strip(s) ==
    LET keep == {i \in 1..Len(s) : s[i] \notin Whitespace}
    IN  IF keep = {} THEN <<>> ELSE SubSeq(s, SetMin(keep), SetMax(keep))

\* the table as a function from the upper-case characters
LowerOf ==
    [u \in {UpperCase[i] : i \in 1..Len(UpperCase)} |->
        LowerCase[CHOOSE i \in 1..Len(UpperCase) : UpperCase[i] = u]]

lower_char(c) == IF c \in DOMAIN LowerOf THEN LowerOf[c] ELSE c

\* str.lower()
lower(s) == [i \in 1..Len(s) |-> lower_char(s[i])]

\* the Python test `term in s` on two strings
contains(term, s) ==
    \E i \in 0..(Len(s) - Len(term)) : SubSeq(s, i + 1, i + Len(term)) = term

RECURSIVE int_to_str(_)
\* str(n) of a non-negative int
int_to_str(n) ==
    IF n < 10 THEN <<Digits[n + 1]>>
    ELSE int_to_str(n \div 10) \o <<Digits[(n % 10) + 1]>>

----------------------------------------------------------------------------
(* Validator *)

PhoneChars == {Digits[i] : i \in 1..Len(Digits)} \cup {"+", "-", "(", ")", " "}

PhoneMinLen == 7

PhoneMaxLen == 20

\* re.fullmatch(r"[0-9+\-() ]{7,20}", phone.strip())
validate_phone(phone) ==
    LET p == strip(phone)
    IN  /\ Len(p) >= PhoneMinLen
        /\ Len(p) <= PhoneMaxLen
        /\ \A i \in 1..Len(p) : p[i] \in PhoneChars

\* one or more characters, none of them "@" or whitespace: [^@\s]+
no_at_no_space(s) ==
    /\ Len(s) >= 1
    /\ \A i \in 1..Len(s) : s[i] # "@" /\ s[i] \notin Whitespace

\* re.fullmatch(r"[^@\s]+@[^@\s]+\.[^@\s]+", email.strip())
validate_email(email) ==
    LET e == strip(email)
    IN  \E i \in 1..Len(e) : \E j \in 1..Len(e) :
            /\ i < j
            /\ e[i] = "@"
            /\ e[j] = "."
            /\ no_at_no_space(SubSeq(e, 1, i - 1))
            /\ no_at_no_space(SubSeq(e, i + 1, j - 1))
            /\ no_at_no_space(SubSeq(e, j + 1, Len(e)))

----------------------------------------------------------------------------
(* JSON documents *)

JStr(s) == [t |-> "str", s |-> s, n |-> 0]

JInt(n) == [t |-> "int", s |-> <<>>, n |-> n]

JAbsent == [t |-> "absent", s |-> <<>>, n |-> 0]

\* a JSON object with (some of) the four keys
JObj(name, phone, email, address) ==
    [kind |-> "obj", name |-> name, phone |-> phone, email |-> email, address |-> address]

\* a JSON array element that is no object (a number)
JScalar == [kind |-> "scalar", name |-> JAbsent, phone |-> JAbsent,
            email |-> JAbsent, address |-> JAbsent]

JList(items) == [kind |-> "list", items |-> items]

\* a file whose text is not JSON
Garbage == [kind |-> "garbage", items |-> <<>>]

\* no file at the path
Absent == [kind |-> "absent", items |-> <<>>]

\* a file that cannot be opened for reading
Unreadable == [kind |-> "unreadable", items |-> <<>>]

\* a file holding one JSON number
ScalarDoc == [kind |-> "scalar", items |-> <<>>]

\* the file dialog was cancelled: no path
NoPath == [kind |-> "nopath", items |-> <<>>]

\* str(c.get(key, "")) of import_json
get_str(v) ==
    CASE v.t = "str" -> v.s
      [] v.t = "int" -> int_to_str(v.n)
      [] OTHER -> <<>>

\* the dict {"name": name, "phone": phone, "email": email, "address": address}
\* of four strings
contact(name, phone, email, address) ==
    [name |-> JStr(name), phone |-> JStr(phone), email |-> JStr(email),
     address |-> JStr(address)]

\* json.dump(self.contacts, f, ...): the document written for a list of dicts;
\* each dict becomes an object with the keys and values it has
dump(cs) ==
    JList([i \in 1..Len(cs) |->
            JObj(cs[i].name, cs[i].phone, cs[i].email, cs[i].address)])

\* json.load(f) of an array of objects: the list of dicts, each with the keys
\* and values of its object
load(doc) ==
    [i \in 1..Len(doc.items) |->
        [name |-> doc.items[i].name, phone |-> doc.items[i].phone,
         email |-> doc.items[i].email, address |-> doc.items[i].address]]

\* the exception raised by a str method on the value under a key of a dict:
\* KeyError when the key is missing, AttributeError when the value is a number,
\* "" when it is a string
str_error(v) ==
    CASE v.t = "absent" -> "KeyError"
      [] v.t = "int" -> "AttributeError"
      [] OTHER -> ""

----------------------------------------------------------------------------
(* The inputs: what the user types, the files offered for import, the      *)
(* contents contacts.json may have at startup, the search texts.          *)

\* the four texts of the form
Record(name, phone, email, address) ==
    [name |-> name, phone |-> phone, email |-> email, address |-> address]

S_Al == <<"A", "l">>

S_Bo == <<"B", "o">>

S_Cy == <<"C", "y">>

S_Phone1 == <<"5", "5", "5", "0", "1", "0", "0">>

S_Phone2 == <<"5", "5", "5", "-", "0", "1", "9", "9">>

S_ShortPhone == <<"5", "5", "5", "-", "0", "1">>

S_Mail == <<"a", "@", "b", ".", "c">>

S_St == <<"S", "t">>

\* the form as typed: Store Name, Phone, Email, Address
Drafts ==
    { Record(S_Al, S_Phone1, <<>>, <<>>),
      \* the same natural key as the first, typed with other case and padding
      Record(<<" ", "a", "L">>, S_Phone1 \o <<"\t">>, S_Mail, S_St \o <<"\n">>),
      Record(S_Bo, S_Phone2, <<>>, <<>>),
      Record(<<" ">>, S_Phone1, <<>>, <<>>),
      Record(S_Al, <<>>, <<>>, <<>>),
      Record(S_Al, <<" ">>, <<>>, <<>>),
      Record(S_Al, S_ShortPhone, <<>>, <<>>),
      Record(S_Al, S_Phone1, <<"a", "@", "b">>, <<>>) }

\* an element the Validator would refuse (the phone holds letters, the email is
\* a number) and import_json accepts
J_Cy == JObj(JStr(S_Cy), JStr(<<"a", "l", "1">>), JInt(70), JAbsent)

\* the documents a user may pick in the Import dialog
ImportDocs ==
    { NoPath, Unreadable, Garbage, ScalarDoc,
      \* one record, email and address keys missing
      JList(<< JObj(JStr(S_Bo), JStr(S_Phone2), JAbsent, JAbsent) >>),
      \* a record with Al's key, the unvalidated record and a record without a name
      JList(<< JObj(JStr(<<"A", "l", " ">>), JStr(S_Phone1), JStr(<<>>), JStr(<<>>)),
               J_Cy,
               JObj(JStr(<<" ">>), JStr(S_Phone2), JStr(<<>>), JStr(<<>>)) >>),
      \* the same key twice in one file
      JList(<< J_Cy, J_Cy >>),
      \* a well-formed record followed by an element that is no object
      JList(<< JObj(JStr(S_Bo), JStr(S_Phone2), JAbsent, JAbsent), JScalar >>) }

\* contacts.json at startup: missing, not JSON, unreadable, written by an earlier run, or
\* JSON of another shape: a number, an array of a number, an array of an object
\* without the key "name"
InitFiles ==
    { Absent, Garbage, Unreadable, dump(<< contact(S_Al, S_Phone1, <<>>, <<>>) >>),
      ScalarDoc,
      JList(<< JScalar >>),
      JList(<< JObj(JAbsent, JStr(S_Phone1), JStr(<<>>), JStr(<<>>)) >>) }

\* contacts.json as another program or an editor may have left it, accepted by
\* __init__: an array of an object without the keys "email" and "address", and
\* an array of an object whose name is a number
ForeignFiles ==
    { JList(<< JObj(JStr(S_Al), JStr(S_Phone1), JAbsent, JAbsent) >>),
      JList(<< JObj(JInt(5), JStr(S_Phone1), JStr(<<>>), JStr(<<>>)) >>) }

\* texts typed in the search box: the second finds "Al" and "al" in a name and
\* "al1" in a phone, the third is in the name "Bo" and in the email "a@b.c",
\* the fourth is whitespace only
Queries == { <<>>, <<" ", "A", "L">>, <<"B">>, <<"\t", " ">> }

\* what the user picks in the Export dialog: nothing, another file, contacts.json
ExportPaths == {"none", "other", "data"}

\* how a write of contacts.json may end: written, open() fails, or the write
\* fails after open() has truncated the file
SaveOutcomes == {"ok", "open_fails", "write_fails"}

----------------------------------------------------------------------------
(* Helpers of the handlers *)

\* the natural key the duplicate checks compare: (name.lower().strip(), phone.strip())
natural_key(c) == <<strip(lower(c.name.s)), strip(c.phone.s)>>

\* the dict built from the stripped form fields
new_contact(d) == contact(strip(d.name), strip(d.phone), strip(d.email), strip(d.address))

\* the condition of the loop of add_contact on the contact c:
\* c["name"].strip().lower() == name.lower() and c["phone"].strip() == phone
duplicate_test(c, name, phone) ==
    /\ str_error(c.name) = ""
    /\ lower(strip(c.name.s)) = lower(name)
    /\ str_error(c.phone) = ""
    /\ strip(c.phone.s) = phone

\* the exception that condition raises on c, "" when none: the phone is read
\* only when the names agree
duplicate_test_error(c, name) ==
    IF str_error(c.name) # "" THEN str_error(c.name)
    ELSE IF lower(strip(c.name.s)) = lower(name) THEN str_error(c.phone)
    ELSE ""

\* a mutant of is_duplicate: a contact is a duplicate only when all four fields agree
is_duplicate_all_fields(cs, name, phone) ==
    \E i \in 1..Len(cs) :
        /\ duplicate_test(cs[i], name, phone)
        /\ cs[i].email = JStr(<<>>)
        /\ cs[i].address = JStr(<<>>)

\* a mutant of is_duplicate: the names are compared as typed, case included
is_duplicate_exact(cs, name, phone) ==
    \E i \in 1..Len(cs) : cs[i].name = JStr(name) /\ cs[i].phone = JStr(phone)

\* the loop of add_contact over self.contacts: it reaches a contact with this
\* name and phone before the condition raises
is_duplicate(cs, name, phone) ==
    \E i \in 1..Len(cs) :
        /\ duplicate_test(cs[i], name, phone)
        /\ \A j \in 1..(i - 1) : duplicate_test_error(cs[j], name) = ""

\* the exception that escapes the loop of add_contact, "" when none
duplicate_error(cs, name, phone) ==
    LET bad == {i \in 1..Len(cs) : duplicate_test_error(cs[i], name) # ""}
    IN  IF \A i \in 1..Len(cs) : str_error(cs[i].name) = "" /\ str_error(cs[i].phone) = ""
        THEN ""
        ELSE IF bad = {} \/ is_duplicate(cs, name, phone) THEN ""
        ELSE duplicate_test_error(cs[SetMin(bad)], name)

\* the condition of the list comprehension of _apply_search:
\* term in c["name"].lower() or term in c["phone"].lower()
matches(term, c) == contains(term, lower(c.name.s)) \/ contains(term, lower(c.phone.s))

\* the exception that condition raises on c, "" when none: the phone is read
\* only when the name does not hold the term
matches_error(term, c) ==
    IF str_error(c.name) # "" THEN str_error(c.name)
    ELSE IF contains(term, lower(c.name.s)) THEN ""
    ELSE str_error(c.phone)

\* the exception that escapes the list comprehension of _apply_search, "" when none
search_error(cs, text) ==
    LET term == lower(strip(text))
        bad == {i \in 1..Len(cs) : matches_error(term, cs[i]) # ""}
    IN  IF \A i \in 1..Len(cs) : str_error(cs[i].name) = "" /\ str_error(cs[i].phone) = ""
        THEN ""
        ELSE IF term = <<>> \/ bad = {} THEN ""
        ELSE matches_error(term, cs[SetMin(bad)])

\* the exception that escapes _refresh_table for the rows list, "" when none:
\* c["name"] and c["phone"] need the key
refresh_error(list) ==
    IF \E i \in 1..Len(list) : list[i].name.t = "absent" \/ list[i].phone.t = "absent"
    THEN "KeyError"
    ELSE ""

\* a mutant of search_result: the email is searched as well
search_result_with_email(cs, text) ==
    LET term == lower(strip(text))
        hit(c) == matches(term, c) \/ contains(term, lower(c.email.s))
    IN  IF term = <<>> THEN cs ELSE SelectSeq(cs, hit)

\* the list _apply_search computes from self.contacts and the search text
search_result(cs, text) ==
    LET term == lower(strip(text))
        hit(c) == matches(term, c)
    IN  IF term = <<>> THEN cs ELSE SelectSeq(cs, hit)

\* list.index(x): the 0-based index of the first element equal to x, None when
\* there is none (Python raises ValueError)
index(list, x) ==
    IF \E i \in 1..Len(list) : list[i] = x
    THEN SetMin({i \in 1..Len(list) : list[i] = x}) - 1
    ELSE None

\* del list[i], i 0-based
del_at(list, i) == SubSeq(list, 1, i) \o SubSeq(list, i + 2, Len(list))

\* what contacts.json holds after _save_contacts wrote the list cs
written(cs, outcome, old) ==
    CASE outcome = "ok" -> dump(cs)
      [] outcome = "open_fails" -> old
      [] OTHER -> Garbage

\* the message box _save_contacts shows
save_dialogs(outcome) == IF outcome = "ok" THEN <<>> ELSE <<"Save Error">>

\* a mutant of save_contacts: the list is written as it was before the handler
\* changed it
save_contacts_before_change(outcome) ==
    /\ file' = written(contacts, outcome, file)
    /\ saved' = outcome
    /\ failed_saves' = IF outcome = "ok" THEN failed_saves ELSE failed_saves + 1

\* _save_contacts, called once self.contacts has its new value
save_contacts(outcome) ==
    /\ file' = written(contacts', outcome, file)
    /\ saved' = outcome
    /\ failed_saves' = IF outcome = "ok" THEN failed_saves ELSE failed_saves + 1

\* the exception that escapes _apply_search, as a list of titles: from the list
\* comprehension, else from _refresh_table on the new list of rows
apply_search_dialogs ==
    IF search_error(contacts', var_search') # ""
    THEN <<search_error(contacts', var_search')>>
    ELSE IF refresh_error(filtered_contacts') # "" THEN <<refresh_error(filtered_contacts')>>
    ELSE <<>>

\* a mutant of apply_search: the list of rows is computed again and the selection
\* is kept
apply_search_keeping_selection ==
    /\ filtered_contacts' = search_result(contacts', var_search')
    /\ selected_index' = selected_index

\* a mutant of apply_search: the selection is reset and the list of rows is not
\* computed again
apply_search_stale ==
    /\ filtered_contacts' = filtered_contacts
    /\ selected_index' = None

\* _apply_search, called once self.contacts and the search text have their new
\* values; when the list comprehension raises, neither assignment is made
apply_search ==
    IF search_error(contacts', var_search') # ""
    THEN UNCHANGED <<filtered_contacts, selected_index>>
    ELSE /\ filtered_contacts' = search_result(contacts', var_search')
         /\ selected_index' = None

\* a mutant of returns: the handler writes contacts.json before it returns
returns_after_save(handler, shown) ==
    /\ op' = handler
    /\ dialogs' = shown
    /\ saved' = "ok"
    /\ reported' = None
    /\ file' = dump(contacts)
    /\ UNCHANGED <<contacts, filtered_contacts, selected_index, var_search, failed_saves>>

\* a handler that returns early: nothing but the message box
returns(handler, shown) ==
    /\ op' = handler
    /\ dialogs' = shown
    /\ saved' = "none"
    /\ reported' = None
    /\ UNCHANGED <<contacts, filtered_contacts, selected_index, var_search, file,
                   failed_saves>>

\* a mutant of form_error: the required fields are tested before they are stripped
form_error_unstripped(d) ==
    IF d.name = <<>> \/ d.phone = <<>> THEN "Missing Fields"
    ELSE IF ~validate_phone(d.phone) THEN "Invalid Phone"
    ELSE IF strip(d.email) # <<>> /\ ~validate_email(d.email) THEN "Invalid Email"
    ELSE ""

\* a mutant of form_error: the phone pattern is not checked
form_error_no_phone_check(d) ==
    LET name == strip(d.name)
        phone == strip(d.phone)
        email == strip(d.email)
    IN  IF name = <<>> \/ phone = <<>> THEN "Missing Fields"
        ELSE IF email # <<>> /\ ~validate_email(email) THEN "Invalid Email"
        ELSE ""

\* the checks add_contact and update_contact make on the stripped form fields:
\* the title of the warning shown, "" when the draft passes
form_error(d) ==
    LET name == strip(d.name)
        phone == strip(d.phone)
        email == strip(d.email)
    IN  IF name = <<>> \/ phone = <<>> THEN "Missing Fields"
        ELSE IF phone # <<>> /\ ~validate_phone(phone) THEN "Invalid Phone"
        ELSE IF email # <<>> /\ ~validate_email(email) THEN "Invalid Email"
        ELSE ""

----------------------------------------------------------------------------
(* State after ContactManager.__init__ *)

\* the exception that _load_contacts and _refresh_table let escape from
\* __init__ for the document f, "" when there is none: json.load succeeds on
\* every JSON text, list(self.contacts) raises on a number, and c["name"],
\* c["phone"] raise on the first element that is no object or lacks the key
init_raises(f) ==
    LET bad == {i \in 1..Len(f.items) :
                   \/ f.items[i].kind # "obj"
                   \/ f.items[i].name.t = "absent"
                   \/ f.items[i].phone.t = "absent"}
    IN  IF f.kind = "scalar" THEN "TypeError"
        ELSE IF f.kind # "list" \/ bad = {} THEN ""
        ELSE IF f.items[SetMin(bad)].kind # "obj" THEN "TypeError"
        ELSE "KeyError"

\* _load_contacts: the list read from contacts.json.  When __init__ raises no
\* ContactManager exists; the lists are then written as empty.
load_contacts(f) == IF f.kind = "list" /\ init_raises(f) = "" THEN load(f) ELSE <<>>

\* the message boxes and the escaping exception of __init__
init_dialogs(f) ==
    IF f.kind \in {"garbage", "unreadable"} THEN <<"Load Error">>
    ELSE IF init_raises(f) # "" THEN <<init_raises(f)>>
    ELSE <<>>

\* the state __init__ leaves when contacts.json holds f
startup(f) ==
    /\ file = f
    /\ contacts = load_contacts(f)
    /\ filtered_contacts = load_contacts(f)
    /\ selected_index = None
    /\ var_search = <<>>
    /\ op = "init"
    /\ dialogs = init_dialogs(f)
    /\ saved = "none"
    /\ reported = None
    /\ failed_saves = 0

Init == \E f \in InitFiles : startup(f)

\* startup on any of the files, those of another shape included
InitAnyFile == \E f \in InitFiles \cup ForeignFiles : startup(f)

----------------------------------------------------------------------------
(* The handlers *)

\* the user picks row i of the table (or clears the selection: i = None)
on_tree_select(i) ==
    /\ selected_index' = i
    /\ op' = "on_tree_select"
    /\ dialogs' = <<>>
    /\ saved' = "none"
    /\ reported' = None
    /\ UNCHANGED <<contacts, filtered_contacts, var_search, file, failed_saves>>

\* the user writes text into the search box: the trace calls _apply_search
set_search(text) ==
    /\ var_search' = text
    /\ UNCHANGED contacts
    /\ apply_search
    /\ op' = "apply_search"
    /\ dialogs' = apply_search_dialogs
    /\ saved' = "none"
    /\ reported' = None
    /\ UNCHANGED <<file, failed_saves>>

\* Add New with the form holding draft d
add_contact(d, outcome) ==
    LET c == new_contact(d)
    IN  IF form_error(d) # "" THEN returns("add_contact", <<form_error(d)>>)
        ELSE IF is_duplicate(contacts, c.name.s, c.phone.s)
             THEN returns("add_contact", <<"Duplicate">>)
        ELSE IF duplicate_error(contacts, c.name.s, c.phone.s) # ""
             THEN returns("add_contact", <<duplicate_error(contacts, c.name.s, c.phone.s)>>)
        ELSE /\ contacts' = Append(contacts, c)
             /\ UNCHANGED var_search
             /\ save_contacts(outcome)
             /\ apply_search
             /\ op' = "add_contact"
             /\ dialogs' = save_dialogs(outcome) \o apply_search_dialogs
             /\ reported' = None

\* a mutant of update_contact: the record is taken out of the list and the new
\* values are appended at the end
update_contact_moving(d, outcome) ==
    IF selected_index = None THEN returns("update_contact", <<"No Selection">>)
    ELSE IF form_error(d) # "" THEN returns("update_contact", <<form_error(d)>>)
    ELSE IF selected_index >= Len(filtered_contacts)
         THEN returns("update_contact", <<"IndexError">>)
    ELSE LET target == filtered_contacts[selected_index + 1]
             real_index == index(contacts, target)
         IN  IF real_index = None THEN returns("update_contact", <<"ValueError">>)
             ELSE /\ contacts' = Append(del_at(contacts, real_index), new_contact(d))
                  /\ UNCHANGED var_search
                  /\ save_contacts(outcome)
                  /\ apply_search
                  /\ op' = "update_contact"
                  /\ dialogs' = save_dialogs(outcome) \o apply_search_dialogs
                  /\ reported' = None

\* a mutant of update_contact: the draft is refused as "Duplicate" when a contact
\* of the list has its name and phone, as add_contact does
update_contact_checking_duplicates(d, outcome) ==
    LET c == new_contact(d)
    IN  IF selected_index = None THEN returns("update_contact", <<"No Selection">>)
        ELSE IF form_error(d) # "" THEN returns("update_contact", <<form_error(d)>>)
        ELSE IF is_duplicate(contacts, c.name.s, c.phone.s)
             THEN returns("update_contact", <<"Duplicate">>)
        ELSE IF selected_index >= Len(filtered_contacts)
             THEN returns("update_contact", <<"IndexError">>)
        ELSE LET target == filtered_contacts[selected_index + 1]
                 real_index == index(contacts, target)
             IN  IF real_index = None THEN returns("update_contact", <<"ValueError">>)
                 ELSE /\ contacts' = [contacts EXCEPT ![real_index + 1] = c]
                      /\ UNCHANGED var_search
                      /\ save_contacts(outcome)
                      /\ apply_search
                      /\ op' = "update_contact"
                      /\ dialogs' = save_dialogs(outcome) \o apply_search_dialogs
                      /\ reported' = None

\* Update Selected with the form holding draft d
update_contact(d, outcome) ==
    IF selected_index = None THEN returns("update_contact", <<"No Selection">>)
    ELSE IF form_error(d) # "" THEN returns("update_contact", <<form_error(d)>>)
    ELSE IF selected_index >= Len(filtered_contacts)
         THEN returns("update_contact", <<"IndexError">>)
    ELSE LET target == filtered_contacts[selected_index + 1]
             real_index == index(contacts, target)
         IN  IF real_index = None THEN returns("update_contact", <<"ValueError">>)
             ELSE /\ contacts' = [contacts EXCEPT ![real_index + 1] = new_contact(d)]
                  /\ UNCHANGED var_search
                  /\ save_contacts(outcome)
                  /\ apply_search
                  /\ op' = "update_contact"
                  /\ dialogs' = save_dialogs(outcome) \o apply_search_dialogs
                  /\ reported' = None

\* a mutant of delete_selected: the answer to the prompt is not looked at
delete_selected_whatever_answer(confirm, outcome) ==
    IF selected_index = None THEN returns("delete_selected", <<"No Selection">>)
    ELSE IF selected_index >= Len(filtered_contacts)
         THEN returns("delete_selected", <<"IndexError">>)
    ELSE LET c == filtered_contacts[selected_index + 1]
             real_index == index(contacts, c)
         IN  IF c.name.t = "absent" THEN returns("delete_selected", <<"KeyError">>)
             ELSE IF real_index = None
             THEN returns("delete_selected", <<"Confirm Delete", "ValueError">>)
             ELSE /\ contacts' = del_at(contacts, real_index)
                  /\ UNCHANGED var_search
                  /\ save_contacts(outcome)
                  /\ apply_search
                  /\ op' = "delete_selected"
                  /\ dialogs' = <<"Confirm Delete">> \o save_dialogs(outcome)
                                 \o apply_search_dialogs
                  /\ reported' = None

\* Delete Selected; confirm is the answer to the yes/no prompt
delete_selected(confirm, outcome) ==
    IF selected_index = None THEN returns("delete_selected", <<"No Selection">>)
    ELSE IF selected_index >= Len(filtered_contacts)
         THEN returns("delete_selected", <<"IndexError">>)
    ELSE LET c == filtered_contacts[selected_index + 1]
             real_index == index(contacts, c)
         IN  IF c.name.t = "absent" THEN returns("delete_selected", <<"KeyError">>)
             ELSE IF ~confirm THEN returns("delete_selected", <<"Confirm Delete">>)
             ELSE IF real_index = None
                  THEN returns("delete_selected", <<"Confirm Delete", "ValueError">>)
             ELSE /\ contacts' = del_at(contacts, real_index)
                  /\ UNCHANGED var_search
                  /\ save_contacts(outcome)
                  /\ apply_search
                  /\ op' = "delete_selected"
                  /\ dialogs' = <<"Confirm Delete">> \o save_dialogs(outcome)
                                 \o apply_search_dialogs
                  /\ reported' = None

\* the dict import_json builds from one element of the document
coerce(item) ==
    contact(strip(get_str(item.name)), strip(get_str(item.phone)),
           strip(get_str(item.email)), strip(get_str(item.address)))

RECURSIVE validate_items(_, _)
\* the loop `for c in imported` of import_json, from the elements left and the
\* list `valid` built so far: an element without .get raises, an element
\* without a name or a phone is skipped
validate_items(items, valid) ==
    IF items = <<>> THEN [raised |-> FALSE, valid |-> valid]
    ELSE IF Head(items).kind # "obj" THEN [raised |-> TRUE, valid |-> valid]
    ELSE LET c == coerce(Head(items))
         IN  IF c.name.s = <<>> \/ c.phone.s = <<>>
             THEN validate_items(Tail(items), valid)
             ELSE validate_items(Tail(items), Append(valid, c))

\* the exception that escapes the set comprehension `existing_pairs` of
\* import_json, "" when none: c["name"].lower() and c["phone"].strip() of each
\* contact of the list, in order
existing_pairs_error(cs) ==
    LET bad == {i \in 1..Len(cs) : str_error(cs[i].name) # "" \/ str_error(cs[i].phone) # ""}
        c == cs[SetMin(bad)]
    IN  IF bad = {} THEN ""
        ELSE IF str_error(c.name) # "" THEN str_error(c.name)
        ELSE str_error(c.phone)

\* a mutant of new_items: the natural keys already in the list are not filtered out
new_items_unfiltered(cs, valid) == valid

\* the list `new_items` of import_json: the valid elements whose natural key is
\* not the key of a contact already in the list
new_items(cs, valid) ==
    LET existing_pairs == {natural_key(cs[i]) : i \in 1..Len(cs)}
        fresh(c) == natural_key(c) \notin existing_pairs
    IN  SelectSeq(valid, fresh)

\* a mutant of import_json: each valid element is appended as the loop meets it,
\* so the elements before a malformed one are in the list when the loop raises
import_json_eager(doc, outcome) ==
    IF doc.kind = "nopath" THEN returns("import_json", <<>>)
    ELSE IF doc.kind \in {"unreadable", "garbage"}
         THEN returns("import_json", <<"Import Error">>)
    ELSE IF doc.kind # "list" THEN returns("import_json", <<"Import Error">>)
    ELSE LET checked == validate_items(doc.items, <<>>)
             added == new_items(contacts, checked.valid)
         IN  /\ contacts' = contacts \o added
             /\ UNCHANGED var_search
             /\ op' = "import_json"
             /\ reported' = IF checked.raised THEN None ELSE Len(added)
             /\ IF checked.raised
                THEN /\ dialogs' = <<"Import Error">>
                     /\ saved' = "none"
                     /\ UNCHANGED <<file, filtered_contacts, selected_index, failed_saves>>
                ELSE /\ save_contacts(outcome)
                     /\ apply_search
                     /\ dialogs' = save_dialogs(outcome) \o <<"Imported">>

\* Import JSON with the document the user picked.  Whatever is raised inside
\* the try block ends in "Import Error": by the loop over the document and by
\* existing_pairs before the list is extended, by _apply_search after it was
\* extended and saved.
import_json(doc, outcome) ==
    IF doc.kind = "nopath" THEN returns("import_json", <<>>)
    ELSE IF doc.kind \in {"unreadable", "garbage"}
         THEN returns("import_json", <<"Import Error">>)
    ELSE IF doc.kind # "list" THEN returns("import_json", <<"Import Error">>)
    ELSE LET checked == validate_items(doc.items, <<>>)
             added == new_items(contacts, checked.valid)
         IN  IF checked.raised \/ existing_pairs_error(contacts) # ""
             THEN returns("import_json", <<"Import Error">>)
             ELSE /\ contacts' = contacts \o added
                  /\ UNCHANGED var_search
                  /\ save_contacts(outcome)
                  /\ apply_search
                  /\ op' = "import_json"
                  /\ dialogs' = save_dialogs(outcome)
                                 \o (IF apply_search_dialogs = <<>> THEN <<"Imported">>
                                     ELSE <<"Import Error">>)
                  /\ reported' = IF apply_search_dialogs = <<>> THEN Len(added) ELSE None

\* the message box export_json shows
export_dialogs(outcome) == IF outcome = "ok" THEN <<"Exported">> ELSE <<"Export Error">>

\* Export JSON to the path the user picked: none (the dialog was cancelled),
\* another file, or contacts.json itself; outcome is how the write ends
export_json(path, outcome) ==
    IF path = "none" THEN returns("export_json", <<>>)
    ELSE IF path = "other" THEN returns("export_json", export_dialogs(outcome))
    ELSE /\ file' = written(contacts, outcome, file)
         /\ failed_saves' = IF outcome = "ok" THEN failed_saves ELSE failed_saves + 1
         /\ op' = "export_json"
         /\ dialogs' = export_dialogs(outcome)
         /\ saved' = "none"
         /\ reported' = None
         /\ UNCHANGED <<contacts, filtered_contacts, selected_index, var_search>>

----------------------------------------------------------------------------
(* The program: the user's events in any order *)

\* main() enters the event loop only when ContactManager(root) has returned
Running == ~(op = "init" /\ init_raises(file) # "")

Select == Running /\ \E i \in {None} \cup (0..(Len(filtered_contacts) - 1)) : on_tree_select(i)

Search == Running /\ \E text \in Queries : set_search(text)

\* The session on a file system where every write of contacts.json succeeds.

Add == Running /\ \E d \in Drafts : add_contact(d, "ok") /\ Len(contacts') <= MaxContacts

Update == Running /\ \E d \in Drafts : update_contact(d, "ok")

Delete == Running /\ \E confirm \in BOOLEAN : delete_selected(confirm, "ok")

Import == Running /\ \E doc \in ImportDocs : import_json(doc, "ok") /\ Len(contacts') <= MaxContacts

Export == Running /\ \E path \in ExportPaths : export_json(path, "ok")

Next == Select \/ Search \/ Add \/ Update \/ Delete \/ Import \/ Export

Spec == Init /\ [][Next]_vars

\* The same session started on any contacts.json, also one that the program
\* did not write.

SpecAnyFile == InitAnyFile /\ [][Next]_vars

\* The session on a file system where a write may fail.  Only the drafts and
\* documents that reach _save_contacts are offered, and the search box stays empty.

SavingDrafts == {d \in Drafts : form_error(d) = ""}

SavingDocs ==
    {doc \in ImportDocs : doc.kind = "list" /\ ~validate_items(doc.items, <<>>).raised}

\* a write may end in any way while fewer than MaxFailedSaves writes have failed
Outcomes == IF failed_saves < MaxFailedSaves THEN SaveOutcomes ELSE {"ok"}

AddFS ==
    Running /\ \E d \in SavingDrafts : \E outcome \in Outcomes :
        add_contact(d, outcome) /\ Len(contacts') <= MaxContactsFS

UpdateFS == Running /\ \E d \in SavingDrafts : \E outcome \in Outcomes : update_contact(d, outcome)

DeleteFS == Running /\ \E outcome \in Outcomes : delete_selected(TRUE, outcome)

ImportFS ==
    Running /\ \E doc \in SavingDocs : \E outcome \in Outcomes :
        import_json(doc, outcome) /\ Len(contacts') <= MaxContactsFS

ExportFS ==
    Running /\ \E path \in ExportPaths : \E outcome \in Outcomes : export_json(path, outcome)

NextFS == Select \/ AddFS \/ UpdateFS \/ DeleteFS \/ ImportFS \/ ExportFS

SpecFS == Init /\ [][NextFS]_vars

----------------------------------------------------------------------------
(* Properties *)

\* the natural keys of a list of contacts
keys_of(cs) == {natural_key(cs[i]) : i \in 1..Len(cs)}

\* no two contacts of the list share a natural key
NoDuplicateKeys(cs) ==
    \A i \in 1..Len(cs) : \A j \in 1..Len(cs) :
        i # j => natural_key(cs[i]) # natural_key(cs[j])

\* the Validator rules of the data model, for one stored record
ValidRecord(c) ==
    /\ c.name.t = "str"
    /\ c.phone.t = "str"
    /\ c.email.t # "int"
    /\ c.address.t # "int"
    /\ strip(c.name.s) # <<>>
    /\ strip(c.phone.s) # <<>>
    /\ validate_phone(c.phone.s)
    /\ strip(c.email.s) = <<>> \/ validate_email(c.email.s)

\* C1 as stated: in every reachable state no two records of the Store share
\* the natural key (lower-cased trimmed name, trimmed phone).
C1_UniqueKeysAlways == NoDuplicateKeys(contacts)

\* C1, amended: a step of add, delete, search or selection never takes a Store
\* without duplicate keys to one with duplicate keys, and an import never appends
\* a record whose natural key was in the Store before the import.  (An update,
\* and an import file that repeats a key, can leave two records sharing a key.)
C1_KeysKeptByAddDeleteSearch ==
    [][ /\ ( /\ NoDuplicateKeys(contacts)
             /\ op' \in {"add_contact", "delete_selected", "apply_search", "on_tree_select"} )
           => NoDuplicateKeys(contacts')
        /\ op' = "import_json"
           => /\ Len(contacts') >= Len(contacts)
              /\ SubSeq(contacts', 1, Len(contacts)) = contacts
              /\ \A i \in (Len(contacts) + 1)..Len(contacts') :
                    natural_key(contacts'[i]) \notin keys_of(contacts) ]_vars

\* C1 witness: an add was refused as a duplicate in a Store of several records
\* with distinct keys
C1_Witness ==
    /\ op = "add_contact"
    /\ dialogs = <<"Duplicate">>
    /\ Len(contacts) >= 2
    /\ NoDuplicateKeys(contacts)

\* C2 as stated: every record of the canonical list satisfies the Validator
\* rules in every reachable state.
C2_AllRecordsValidAlways == \A i \in 1..Len(contacts) : ValidRecord(contacts[i])

\* C2, amended: every record of the list has a non-empty name and phone, and
\* every record that add appends or update writes satisfies the Validator rules
\* (phone pattern, email shape); a record appended by import is checked for the
\* presence of name and phone only.
C2_ValidatedOnAddAndUpdate ==
    /\ [](\A i \in 1..Len(contacts) :
            strip(contacts[i].name.s) # <<>> /\ strip(contacts[i].phone.s) # <<>>)
    /\ [][ /\ (op' = "add_contact" /\ saved' # "none")
              => /\ Len(contacts') = Len(contacts) + 1
                 /\ ValidRecord(contacts'[Len(contacts')])
           /\ (op' = "update_contact" /\ saved' # "none")
              => /\ Len(contacts') = Len(contacts)
                 /\ \A i \in 1..Len(contacts) :
                       contacts'[i] # contacts[i] => ValidRecord(contacts'[i]) ]_vars

\* C2 witness: an add has appended a valid record to a list that holds an
\* imported record the Validator would refuse
C2_Witness ==
    /\ op = "add_contact"
    /\ saved = "ok"
    /\ ValidRecord(contacts[Len(contacts)])
    /\ \E i \in 1..Len(contacts) : ~ValidRecord(contacts[i])

\* the positions in the Store (1-based) of the rows of the Filtered View, in
\* order: row k of the view shows the k-th record that matches the search text
view_positions(cs, text) ==
    LET term == lower(strip(text))
        shown(i) == term = <<>> \/ matches(term, cs[i])
    IN  SelectSeq([i \in 1..Len(cs) |-> i], shown)

\* the position in the Store (1-based) of the record the selection denotes
selected_position == view_positions(contacts, var_search)[selected_index + 1]

\* C3: an update with a selection and a valid draft replaces the record the
\* selection denotes, at that record's own position in the Store; every other
\* position keeps its record and the length is unchanged.
C3_UpdateReplacesSelectedRecord ==
    [][ \A d \in Drafts :
          (selected_index # None /\ form_error(d) = "" /\ update_contact(d, "ok"))
          => contacts' = [contacts EXCEPT ![selected_position] = new_contact(d)] ]_vars

\* C4: a confirmed delete removes the record the selection denotes, at that
\* record's own position, and keeps the other records in their order.
C4_DeleteRemovesSelectedRecord ==
    [][ (selected_index # None /\ delete_selected(TRUE, "ok"))
        => contacts' = del_at(contacts, selected_position - 1) ]_vars

\* C5: for a valid draft, add is refused with "Duplicate" and leaves the Store
\* as it is exactly when some record of the Store has the draft's natural key,
\* whatever the email and address of either; otherwise it appends one record.
\* So of two drafts with equal keys the first is appended and the second, while
\* a record with that key remains, is refused.
C5_AddRefusesSecondDraftOfAKey ==
    [][ \A d \in Drafts :
          (op' = "add_contact" /\ form_error(d) = "" /\ add_contact(d, "ok"))
          => IF natural_key(new_contact(d)) \in keys_of(contacts)
             THEN /\ dialogs' = <<"Duplicate">>
                  /\ UNCHANGED <<contacts, filtered_contacts, file>>
             ELSE /\ contacts' = Append(contacts, new_contact(d))
                  /\ dialogs' = <<>> ]_vars

\* C5 witness: an add was refused as a duplicate while the record holding the
\* key of "Al" has an email and an address
C5_Witness ==
    /\ op = "add_contact"
    /\ dialogs = <<"Duplicate">>
    /\ \E i \in 1..Len(contacts) :
          /\ natural_key(contacts[i]) = <<lower(S_Al), S_Phone1>>
          /\ contacts[i].email.s # <<>>
          /\ contacts[i].address.s # <<>>

\* the draft has no name or no phone once trimmed
MissingField(d) == strip(d.name) = <<>> \/ strip(d.phone) = <<>>

\* C6 as stated: for a draft without name or phone, add and update fail with
\* "Missing Fields" and leave the Store unchanged, whatever the selection.
C6_MissingFieldWhateverSelection ==
    [][ \A d \in Drafts :
          (MissingField(d) /\ (add_contact(d, "ok") \/ update_contact(d, "ok")))
          => dialogs' = <<"Missing Fields">> /\ contacts' = contacts ]_vars

\* C6, amended: for a draft without name or phone, add fails with "Missing
\* Fields"; update fails with "Missing Fields" when a record is selected and with
\* "No Selection" when none is; the Store is unchanged in each case.
C6_MissingFieldRejected ==
    [][ \A d \in Drafts :
          MissingField(d)
          => /\ add_contact(d, "ok")
                => dialogs' = <<"Missing Fields">> /\ contacts' = contacts
             /\ update_contact(d, "ok")
                => /\ contacts' = contacts
                   /\ dialogs' = IF selected_index = None
                                 THEN <<"No Selection">>
                                 ELSE <<"Missing Fields">> ]_vars

\* C6 witness: an update with a record selected was refused for a missing field
C6_Witness ==
    /\ op = "update_contact"
    /\ dialogs = <<"Missing Fields">>
    /\ selected_index # None
    /\ Len(contacts) >= 1

\* what C7 requires of a refused handler
RefusedNoSelection ==
    /\ dialogs' = <<"No Selection">>
    /\ saved' = "none"
    /\ UNCHANGED <<contacts, file, filtered_contacts>>

\* C7: with no record selected, update and delete fail with "No Selection" and
\* leave the Store, the file and the Filtered View unchanged; no confirmation
\* prompt is shown and nothing is saved.
C7_NoSelectionRefused ==
    [][ selected_index = None
        => /\ \A d \in Drafts : update_contact(d, "ok") => RefusedNoSelection
           /\ \A confirm \in BOOLEAN :
                 delete_selected(confirm, "ok") => RefusedNoSelection ]_vars

\* C7 witness: a delete was refused for want of a selection, with records in the Store
C7_Witness ==
    /\ op = "delete_selected"
    /\ dialogs = <<"No Selection">>
    /\ selected_index = None
    /\ Len(contacts) >= 1

\* an element of an import document that is well formed (a name and a phone
\* once coerced and trimmed) and whose natural key is not in the list cs
WellFormedNew(cs, item) ==
    /\ strip(get_str(item.name)) # <<>>
    /\ strip(get_str(item.phone)) # <<>>
    /\ <<lower(strip(get_str(item.name))), strip(get_str(item.phone))>> \notin keys_of(cs)

\* C8: an import of a document of record objects appends exactly the N elements
\* that are well formed and whose key is not in the Store, and reports N;
\* elements duplicating a Store key or lacking a name or phone are not counted.
C8_ImportAddsAndReportsNewOnly ==
    [][ \A doc \in ImportDocs :
          ( /\ op' = "import_json"
            /\ doc.kind = "list"
            /\ \A i \in 1..Len(doc.items) : doc.items[i].kind = "obj"
            /\ import_json(doc, "ok") )
          => LET N == Cardinality({i \in 1..Len(doc.items) :
                                      WellFormedNew(contacts, doc.items[i])})
             IN  /\ Len(contacts') = Len(contacts) + N
                 /\ SubSeq(contacts', 1, Len(contacts)) = contacts
                 /\ reported' = N ]_vars

\* C8 witness: the import of a duplicate of "Al", a new record and a nameless
\* element into a Store holding "Al" has reported one record
C8_Witness ==
    /\ op = "import_json"
    /\ reported = 1
    /\ Len(contacts) = 2
    /\ contacts[1].name.s = S_Al
    /\ contacts[2].name.s = S_Cy

\* the import cannot read or validate the document
ImportFails(doc) ==
    \/ doc.kind \in {"unreadable", "garbage", "scalar"}
    \/ doc.kind = "list" /\ \E i \in 1..Len(doc.items) : doc.items[i].kind # "obj"

\* C9: an import that fails ends in "Import Error" with the Store, the file,
\* the Filtered View and the selection as before: no imported element is added.
C9_FailedImportChangesNothing ==
    [][ \A doc \in ImportDocs :
          (ImportFails(doc) /\ import_json(doc, "ok"))
          => /\ dialogs' = <<"Import Error">>
             /\ saved' = "none"
             /\ UNCHANGED <<contacts, file, filtered_contacts, selected_index>> ]_vars

\* C9 witness: an import has failed with records in the Store and a row selected
C9_Witness ==
    /\ op = "import_json"
    /\ dialogs = <<"Import Error">>
    /\ Len(contacts) >= 1
    /\ selected_index # None

\* C10: when the save of the last handler succeeded, contacts.json holds the
\* Store: the same records in the same order.
C10_FileMirrorsStoreAfterSave == saved = "ok" => file = dump(contacts)

\* C10 witness: an update was saved after an earlier write had failed
C10_Witness ==
    /\ op = "update_contact"
    /\ saved = "ok"
    /\ failed_saves >= 1
    /\ Len(contacts) >= 2
    /\ file = dump(contacts)

\* the save of the step's handler was attempted and failed
SaveFailed == saved' \in {"open_fails", "write_fails"}

\* C11: when the save of a mutation fails, the mutation stays in the Store (an
\* add or import has appended, a delete has removed, an update has kept the
\* length), contacts.json keeps the contents it had, and the Filtered View is
\* recomputed; and after the next save that succeeds contacts.json holds the
\* full Store.
C11_FailedSaveKeepsFile ==
    /\ [][ SaveFailed
           => /\ file' = file
              /\ filtered_contacts' = search_result(contacts', var_search')
              /\ op' = "add_contact" => Len(contacts') = Len(contacts) + 1
              /\ op' = "delete_selected" => Len(contacts') = Len(contacts) - 1
              /\ op' = "update_contact" => Len(contacts') = Len(contacts)
              /\ op' = "import_json" => Len(contacts') >= Len(contacts) ]_vars
    /\ [](saved = "ok" => file = dump(contacts))

\* contacts.json at startup is no array of record objects
NotARecordArray(f) ==
    \/ f.kind # "list"
    \/ \E i \in 1..Len(f.items) :
          \/ f.items[i].kind # "obj"
          \/ f.items[i].name.t # "str"
          \/ f.items[i].phone.t # "str"

\* C12: when contacts.json is absent, is not JSON, or is JSON of another shape
\* than an array of record objects, startup ends with an empty Store and no
\* exception, with the warning "Load Error" unless the file is absent; and the
\* file stays as it is until a handler saves (or the user exports onto it).
C12_LoadNeverRaises ==
    /\ [](( op = "init" /\ NotARecordArray(file) )
          => /\ contacts = <<>>
             /\ filtered_contacts = <<>>
             /\ dialogs = IF file.kind = "absent" THEN <<>> ELSE <<"Load Error">>)
    /\ [][(saved' = "none" /\ op' # "export_json") => file' = file]_vars

\* C13: the Store stays in insertion order.  A search or a selection leaves the
\* Store as it is; an update changes the record at one position and no other
\* position; a delete takes out one position and keeps the others in their
\* order; add and import keep the records there are, in place, and append.  So
\* no step makes two records that remain swap places.
C13_InsertionOrderKept ==
    [][ /\ op' \in {"apply_search", "on_tree_select"} => contacts' = contacts
        /\ op' = "update_contact"
           => \/ contacts' = contacts
              \/ \E k \in 1..Len(contacts) :
                    contacts' = [contacts EXCEPT ![k] = contacts'[k]]
        /\ op' = "delete_selected"
           => \/ contacts' = contacts
              \/ \E k \in 1..Len(contacts) : contacts' = del_at(contacts, k - 1)
        /\ op' \in {"add_contact", "import_json"}
           => /\ Len(contacts') >= Len(contacts)
              /\ SubSeq(contacts', 1, Len(contacts)) = contacts ]_vars

\* C13 witness: with a search text in the box, an update was saved in a Store of
\* three records whose first record has the updated values and is followed by
\* two others
C13_Witness ==
    /\ op = "update_contact"
    /\ saved = "ok"
    /\ var_search # <<>>
    /\ Len(contacts) = 3
    /\ contacts[1] = contact(<<"a", "L">>, S_Phone1, S_Mail, S_St)
    /\ contacts[2].name.s = S_Cy
    /\ contacts[3].name.s = S_Bo

\* the text s contains the text q, letter case set aside
ContainsIgnoringCase(q, s) ==
    \E i \in 1..(Len(s) + 1) : \E j \in (i - 1)..Len(s) :
        /\ j - i + 1 = Len(q)
        /\ \A k \in 1..Len(q) : lower_char(s[i + k - 1]) = lower_char(q[k])

\* the subsequence of cs at the positions P, in the order of cs
Pick(cs, P) ==
    [k \in 1..Cardinality(P) |->
        cs[CHOOSE i \in P : Cardinality({j \in P : j < i}) = k - 1]]

\* the records of cs whose name or phone contains q, in the order of cs
NameOrPhoneContains(cs, q) ==
    Pick(cs, {i \in 1..Len(cs) : \/ ContainsIgnoringCase(q, cs[i].name.s)
                                 \/ ContainsIgnoringCase(q, cs[i].phone.s)})

\* the text is empty or whitespace only
Blank(q) == \A k \in 1..Len(q) : q[k] \in Whitespace

\* C14 as stated: the Filtered View holds exactly the records of the Store whose
\* name or phone contains the query as typed, letter case set aside, in the
\* order of the Store; the whole Store for an empty or whitespace-only query.
C14_FilterMatchesQueryAsTyped ==
    filtered_contacts = IF Blank(var_search) THEN contacts
                        ELSE NameOrPhoneContains(contacts, var_search)

\* C14, amended: the query is trimmed of surrounding whitespace first.  The
\* Filtered View holds exactly the records of the Store whose name or phone
\* contains the trimmed query, letter case set aside, in the order of the Store;
\* the whole Store when the trimmed query is empty.  The same holds of the list
\* the filter computes from the Store for each text of Queries, and a record
\* whose email or address alone contains the query is not in it.
C14_FilterMatchesTrimmedQuery ==
    /\ filtered_contacts = IF Blank(var_search) THEN contacts
                           ELSE NameOrPhoneContains(contacts, strip(var_search))
    /\ \A q \in Queries :
          search_result(contacts, q) = IF Blank(q) THEN contacts
                                       ELSE NameOrPhoneContains(contacts, strip(q))

\* C14 witness: the search for "B" shows "Bo" alone, from a Store of three
\* records one of which has "b" in its email only
C14_Witness ==
    /\ op = "apply_search"
    /\ var_search = <<"B">>
    /\ Len(contacts) = 3
    /\ Len(filtered_contacts) = 1
    /\ filtered_contacts[1].name.s = S_Bo
    /\ \E i \in 1..Len(contacts) :
          contacts[i].name.s # S_Bo /\ ContainsIgnoringCase(<<"B">>, contacts[i].email.s)

\* some record of the Store other than the one the selection denotes has the
\* natural key of the draft
KeyOfAnotherRecord(d) ==
    \E i \in 1..Len(contacts) :
        i # selected_position /\ natural_key(contacts[i]) = natural_key(new_contact(d))

\* C15: an update with a record selected and a valid draft whose natural key is
\* the key of another record of the Store is carried out and saved, with no
\* "Duplicate" refusal; afterwards two records of the Store share a natural key
\* and the Store has the length it had.
C15_UpdateToExistingKeySucceeds ==
    [][ \A d \in Drafts :
          ( /\ op' = "update_contact"
            /\ selected_index # None
            /\ form_error(d) = ""
            /\ KeyOfAnotherRecord(d)
            /\ update_contact(d, "ok") )
          => /\ dialogs' = <<>>
             /\ saved' = "ok"
             /\ Len(contacts') = Len(contacts)
             /\ ~NoDuplicateKeys(contacts')
             /\ \E i \in 1..Len(contacts') : contacts'[i] = new_contact(d) ]_vars

\* C15 witness: an update was saved and the Store holds two records with the key
\* of "Al", one with and one without an email
C15_Witness ==
    /\ op = "update_contact"
    /\ saved = "ok"
    /\ Len(contacts) = 2
    /\ natural_key(contacts[1]) = natural_key(contacts[2])
    /\ natural_key(contacts[1]) = <<lower(S_Al), S_Phone1>>
    /\ contacts[1].email # contacts[2].email

\* the text matches [0-9+\-() ]{7,20} as it is, untrimmed
PhonePattern(s) ==
    /\ Len(s) >= PhoneMinLen
    /\ Len(s) <= PhoneMaxLen
    /\ \A i \in 1..Len(s) : s[i] \in PhoneChars

\* what C16 requires of a refused draft
RefusedInvalidPhone == dialogs' = <<"Invalid Phone">> /\ contacts' = contacts

\* C16 as stated: for every draft (with a name) whose phone as typed does not
\* match the pattern, the empty, the whitespace-only and the padded phones
\* included, add, and update with a record selected, fail with "Invalid Phone"
\* and leave the Store unchanged.
C16_NonMatchingPhoneIsInvalidPhone ==
    [][ \A d \in Drafts :
          ( /\ op' \in {"add_contact", "update_contact"}
            /\ strip(d.name) # <<>>
            /\ ~PhonePattern(d.phone)
            /\ \/ op' = "add_contact" /\ add_contact(d, "ok")
               \/ op' = "update_contact" /\ selected_index # None /\ update_contact(d, "ok") )
          => RefusedInvalidPhone ]_vars

\* C16, amended: the phone is judged once trimmed.  For a draft with a name, add,
\* and update with a record selected, fail with "Invalid Phone" when the trimmed
\* phone is not empty and does not match the pattern, and fail with "Missing
\* Fields" when the phone is empty or whitespace only; the Store is unchanged in
\* both cases.  A phone that matches once trimmed is not refused as invalid,
\* whatever whitespace surrounds it.
C16_TrimmedPhoneJudged ==
    [][ \A d \in Drafts :
          ( /\ op' \in {"add_contact", "update_contact"}
            /\ strip(d.name) # <<>>
            /\ \/ op' = "add_contact" /\ add_contact(d, "ok")
               \/ op' = "update_contact" /\ selected_index # None /\ update_contact(d, "ok") )
          => IF strip(d.phone) = <<>>
             THEN dialogs' = <<"Missing Fields">> /\ contacts' = contacts
             ELSE IF ~PhonePattern(strip(d.phone)) THEN RefusedInvalidPhone
             ELSE dialogs' # <<"Invalid Phone">> ]_vars

\* C16 witness: an update with a record selected was refused for its phone
C16_Witness ==
    /\ op = "update_contact"
    /\ dialogs = <<"Invalid Phone">>
    /\ selected_index # None
    /\ Len(contacts) >= 2

\* C17: in every state, that is after startup and after every handler, those
\* that return early with a message included, the Filtered View is the list the
\* filter computes from the Store and the text of the search box.
C17_ViewNeverStale == filtered_contacts = search_result(contacts, var_search)

\* C17 witness: with a search text in the box an add was saved; the view shows
\* the new record and hides a record of the Store
C17_Witness ==
    /\ op = "add_contact"
    /\ saved = "ok"
    /\ ~Blank(var_search)
    /\ Len(filtered_contacts) >= 1
    /\ Len(filtered_contacts) < Len(contacts)
    /\ filtered_contacts[Len(filtered_contacts)] = contacts[Len(contacts)]

\* C18: a delete of a selected record that is declined at the prompt leaves the
\* Store, contacts.json, the Filtered View and the selection as they are and
\* saves nothing; and a step that shortens the Store is a confirmed delete,
\* which removes one record.
C18_DeclinedDeleteChangesNothing ==
    [][ /\ ( /\ op' = "delete_selected"
             /\ selected_index # None
             /\ delete_selected(FALSE, "ok") )
           => /\ dialogs' = <<"Confirm Delete">>
              /\ saved' = "none"
              /\ UNCHANGED <<contacts, file, filtered_contacts, selected_index>>
        /\ Len(contacts') < Len(contacts)
           => /\ delete_selected(TRUE, "ok")
              /\ ~delete_selected(FALSE, "ok")
              /\ Len(contacts') = Len(contacts) - 1 ]_vars

\* C18 witness: a delete was declined with a row of a filtered view selected
C18_Witness ==
    /\ op = "delete_selected"
    /\ dialogs = <<"Confirm Delete">>
    /\ saved = "none"
    /\ selected_index # None
    /\ ~Blank(var_search)
    /\ Len(filtered_contacts) < Len(contacts)
    /\ file = dump(contacts)

\* the selection is None or the index of a row of the Filtered View whose
\* record list.index finds in the Store
SelectionValid ==
    \/ selected_index = None
    \/ /\ 0 <= selected_index
       /\ selected_index < Len(filtered_contacts)
       /\ index(contacts, filtered_contacts[selected_index + 1]) # None

\* C19: in every state the selection is None or a valid index into the current
\* Filtered View whose record is in the Store, and no handler has ended in an
\* IndexError or a ValueError; every handler that changes the Store or writes
\* it, and every change of the search text, leaves the selection None.
C19_SelectionValidOrNone ==
    /\ [](SelectionValid)
    /\ [](\A k \in 1..Len(dialogs) : dialogs[k] \notin {"IndexError", "ValueError"})
    /\ [][ ( \/ contacts' # contacts
             \/ var_search' # var_search
             \/ saved' # "none"
             \/ op' = "apply_search" )
           => selected_index' = None ]_vars

\* C19 witness: with a search text in the box, the update of a selected row was
\* saved and the selection is None
C19_Witness ==
    /\ op = "update_contact"
    /\ saved = "ok"
    /\ selected_index = None
    /\ ~Blank(var_search)
    /\ Len(filtered_contacts) < Len(contacts)
    /\ Len(contacts) = 3

====
